---- MODULE Spec2Model ----
(***************************************************************************)
(* State-machine model of the STM32 LTDC frame-buffer driver               *)
(* (drivers/video/fbdev/stm32-ltdc.c): probe / register / remove, the      *)
(* interrupt handler, the mode resolver ltdcfb_of_init and the fb_ops.     *)
(*                                                                         *)
(* 32-bit register contents are kept as a pair [hi, lo] of 16-bit halves,  *)
(* so that a shift by 16 and its truncation to 32 bits are exact.  Plain   *)
(* u32 quantities (timings, lengths, addresses) are integers; the inputs   *)
(* are chosen so that their sums stay below 2^31.                          *)
(***************************************************************************)
EXTENDS Integers, Sequences, FiniteSets, TLC

(* ------------------------------------------------------------------ *)
(* Bounds of the model                                                *)
(* ------------------------------------------------------------------ *)

\* Largest multiple q of (125 * kHz) offered as a max-memory-bandwidth.
MaxQuot == 34

\* Largest yoffset a consumer asks for through fb_set_var.
MaxYOffset == 1

\* Largest hsync_len / vsync_len and largest margin of the generated panel
\* timings (0 is included: the driver does not validate them).
MaxSyncLen == 2

MaxMargin == 1

(* ------------------------------------------------------------------ *)
(* Program constants                                                  *)
(* ------------------------------------------------------------------ *)

CNTL_LCDEN == 1
LTDC_ARGB == 0

ENOENT == 2
EIO == 5
ENXIO == 6
ENOMEM == 12
EBUSY == 16
ENODEV == 19
EINVAL == 22

\* u32 framesize = 480 * 272 * 4
framesize == 480 * 272 * 4

Half == 2^16

RegNames == {"L1CFBAR", "L1CFBLR", "L1PFCR", "L1CR", "IER", "ICR", "GCR",
             "SSCR", "BPCR", "AWCR", "TWCR"}

(* ------------------------------------------------------------------ *)
(* 32-bit values as halves                                            *)
(* ------------------------------------------------------------------ *)

RECURSIVE BitOr(_, _)
BitOr(a, b) ==
    IF a = 0 THEN b
    ELSE IF b = 0 THEN a
    ELSE (IF a % 2 = 1 \/ b % 2 = 1 THEN 1 ELSE 0) + 2 * BitOr(a \div 2, b \div 2)

RECURSIVE BitAndNot(_, _)
BitAndNot(a, m) ==
    IF a = 0 THEN 0
    ELSE (IF a % 2 = 1 /\ m % 2 = 0 THEN 1 ELSE 0) + 2 * BitAndNot(a \div 2, m \div 2)

\* A u32 below 2^31 as a register value.
U32(n) == [hi |-> (n \div Half) % Half, lo |-> n % Half]

\* (a << 16) truncated to 32 bits.
Shl16(a) == [hi |-> a % Half, lo |-> 0]

RegOr(x, y) == [hi |-> BitOr(x.hi, y.hi), lo |-> BitOr(x.lo, y.lo)]

RegAndNot(x, m) == [hi |-> BitAndNot(x.hi, m.hi), lo |-> BitAndNot(x.lo, m.lo)]

(* ------------------------------------------------------------------ *)
(* Inputs                                                             *)
(* ------------------------------------------------------------------ *)

Mode(x, y, pc, l, r, u, lo, hs, vs) ==
    [xres |-> x, yres |-> y, pixclock |-> pc,
     left_margin |-> l, right_margin |-> r,
     upper_margin |-> u, lower_margin |-> lo,
     hsync_len |-> hs, vsync_len |-> vs]

\* 480x272 @ 9 MHz, 800x480 @ 30 MHz, and a mode whose sums need 17 bits.
Modes ==
    { Mode(480, 272, 111111, 13, 32, 2, 2, 41, 10),
      Mode(800, 480, 33333, 88, 40, 32, 13, 48, 3),
      Mode(480, 272, 111111, 2, 2, 65000, 2, 1, 300) }

\* Generated timings for the timing-register checks, with the modes above.
TimingModes ==
    Modes \cup
    { Mode(480, 272, 111111, l, rl, u, rl, hs, vs) :
        hs \in 0..MaxSyncLen, vs \in 0..MaxSyncLen,
        l \in 0..MaxMargin, u \in 0..MaxMargin, rl \in 0..MaxMargin }

PICOS2KHZ(a) == 1000000000 \div a

NoBandwidth == -1

\* The max-memory-bandwidth values the device tree may carry: around each
\* multiple q of 125 * kHz for both pixel clocks, the extremes, or none.
Bandwidths ==
    {NoBandwidth, 0, 1, 124, 125, 2147483647}
    \cup { 125 * 9000 * q - d : q \in 1..MaxQuot, d \in {0, 1} }
    \cup { 125 * 30000 * q - d : q \in 1..MaxQuot, d \in {0, 1} }

\* Contents of the layer control register left by reset or a boot loader.
L1CRResets == { U32(0), [hi |-> 65535, lo |-> 65534], [hi |-> 32768, lo |-> 257] }

(* ------------------------------------------------------------------ *)
(* State                                                              *)
(* ------------------------------------------------------------------ *)

VARIABLES
    pc,         \* position of the probe / fb_ops / remove thread
    stack,      \* return positions of the calls in progress
    dt,         \* what probe finds: the device tree's panel timing and
                \* bandwidth property, the layer control register's content
    panel,      \* fb->panel: mode, bpp, width, height
    hw,         \* controller registers
    clk,        \* fb->clk: reference, prepare count, enable count
    fbctx,      \* struct ltdc_fb: "none", "alloc", "freed"
    regs,       \* fb->regs: "null", "mapped", "unmapped"
    irq_ok,     \* which platform_get_irq_byname lookups succeeded
    irqs,       \* interrupt lines with ltdc_interrupt attached
    screen,     \* fb->fb.screen_base: "null", "alloc", "freed"
    cmap,       \* fb->fb.cmap: "none", "alloc", "freed"
    fix,        \* fb->fb.fix
    var,        \* fb->fb.var
    registered, \* register_framebuffer done and not undone
    drvdata,    \* dev_set_drvdata done
    ret,        \* value returned by ltdcfb_register / ltdcfb_probe
    origin,     \* error reported by the step that failed (0: none)
    log,        \* acquisitions, releases and register writes, in order
    chk,        \* the fb_check_var call just made (candidate, result), until
                \* the next operation starts
    fault       \* ltdc_interrupt ran on a freed context or unmapped registers

vars == <<pc, stack, dt, panel, hw, clk, fbctx, regs, irq_ok, irqs, screen,
          cmap, fix, var, registered, drvdata, ret, origin, log, chk, fault>>

res_vars == <<clk, fbctx, regs, irq_ok, irqs, screen, cmap, registered, drvdata>>

NoPanel == [mode |-> Mode(0, 0, 0, 0, 0, 0, 0, 0, 0), bpp |-> 0,
            width |-> 0, height |-> 0]

NoVar == [xres |-> 0, yres |-> 0, xres_virtual |-> 0, yres_virtual |-> 0,
          bits_per_pixel |-> 0, yoffset |-> 0, msb_right |-> 0,
          rgba_length |-> 0]

NoFix == [smem_start |-> 0, smem_len |-> 0, line_length |-> 0]

NoChk == [called |-> FALSE, cand |-> NoVar, out |-> NoVar, ret |-> 0]

InitWith(modes, bws, resets) ==
    /\ pc = "probe"
    /\ stack = <<>>
    /\ dt \in [mode : modes, bandwidth : bws, l1cr : resets]
    /\ panel = NoPanel
    /\ hw = [r \in RegNames |-> IF r = "L1CR" THEN dt.l1cr ELSE U32(0)]
    /\ clk = [ref |-> 0, prepare |-> 0, enable |-> 0]
    /\ fbctx = "none"
    /\ regs = "null"
    /\ irq_ok = {}
    /\ irqs = {}
    /\ screen = "null"
    /\ cmap = "none"
    /\ fix = NoFix
    /\ var = NoVar
    /\ registered = FALSE
    /\ drvdata = FALSE
    /\ ret = 0
    /\ origin = 0
    /\ log = <<>>
    /\ chk = NoChk
    /\ fault = FALSE

Init == InitWith(Modes, {NoBandwidth, 0, 125 * 9000 * 32}, L1CRResets)

(* ------------------------------------------------------------------ *)
(* ltdcfb_of_init                                                     *)
(* ------------------------------------------------------------------ *)

RECURSIVE fls_long(_)
fls_long(n) == IF n = 0 THEN 0 ELSE 1 + fls_long(n \div 2)

\* Stands for 1UL << 31, what a shift count of -1 gives where the count is
\* taken modulo 32; only "> 32" is ever asked of it.
ShiftWrap == 2^30

\* Rounding up instead: 1UL << fls_long(n - 1).
roundup_pow_of_two(n) ==
    IF n = 0 THEN {0, ShiftWrap} ELSE {2^fls_long(n - 1)}

\* 1UL << (fls_long(n) - 1).  For n = 0 the shift count is -1, which is
\* undefined: the result is 0 where the count saturates and 1UL << 31
\* where it wraps.
rounddown_pow_of_two(n) ==
    IF n = 0 THEN {0, ShiftWrap} ELSE {2^(fls_long(n) - 1)}

\* The values of bpp that lines 498-504 can produce.
of_init_bpp(max_bandwidth, pixclock) ==
    IF max_bandwidth = NoBandwidth THEN {32}
    ELSE IF pixclock = 0 \/ PICOS2KHZ(pixclock) = 0
         THEN 0..32   \* division by zero
    ELSE LET raw == (max_bandwidth \div (1000 \div 8)) \div PICOS2KHZ(pixclock)
         IN  { IF b > 32 THEN 32 ELSE b : b \in rounddown_pow_of_two(raw) }

\* ltdcfb_of_init returning 0 with the panel filled in.
of_init_panel(mode, bpp) ==
    [mode |-> mode, bpp |-> bpp, width |-> -1, height |-> -1]

(* ------------------------------------------------------------------ *)
(* Register values                                                    *)
(* ------------------------------------------------------------------ *)

\* The sync size without the count-minus-one encoding of the vertical half.
sscr_val_counts(m) ==
    RegOr(U32(m.vsync_len), Shl16(m.hsync_len - 1))

sscr_val(m) ==
    RegOr(U32(m.vsync_len - 1), Shl16(m.hsync_len - 1))

bpcr_val(m) ==
    RegOr(U32(m.vsync_len + m.upper_margin - 1),
          Shl16(m.hsync_len + m.left_margin - 1))

awcr_val(m) ==
    RegOr(U32(m.vsync_len + m.upper_margin + 272 - 1),
          Shl16(m.hsync_len + m.left_margin + 480 - 1))

twcr_val(m) ==
    RegOr(U32(m.vsync_len + m.upper_margin + 272 + m.lower_margin - 1),
          Shl16(m.hsync_len + m.left_margin + 480 + m.right_margin - 1))

\* Overwriting the register instead of a read-modify-write.
ltdcfb_enable_overwrite(val) == U32(CNTL_LCDEN)

ltdcfb_enable_val(val) == RegOr(val, U32(CNTL_LCDEN))

\* Clearing the whole register instead of the enable bit.
ltdcfb_disable_clear_all(val) == U32(0)

ltdcfb_disable_val(val) == RegAndNot(val, U32(CNTL_LCDEN))

\* writel(0xf, fb->regs + LTDC_ICR)
icr_ack == U32(15)

\* lstart and len of ltdcfb_set_start.
set_start_addr(f, v) ==
    U32(f.smem_start + v.yoffset * f.line_length + v.yres * f.line_length)

set_start_len(f) ==
    RegOr(U32(f.line_length + 3), Shl16(f.line_length))

set_par_line_length(v) == (v.xres_virtual * v.bits_per_pixel) \div 8

(* ------------------------------------------------------------------ *)
(* fb_ops                                                             *)
(* ------------------------------------------------------------------ *)

\* <<var as left by the call, return value>>
ltdcfb_set_bitfields(v) ==
    LET z == [v EXCEPT !.msb_right = 0]
    IN  IF v.bits_per_pixel = 32
        THEN [var |-> [z EXCEPT !.rgba_length = 8], ret |-> 0]
        ELSE [var |-> z, ret |-> -EINVAL]

\* The size test only assigns ret, which the return statement never reads.
ltdcfb_check_var(v, f) ==
    LET ret0 == IF v.xres_virtual * (v.bits_per_pixel \div 8) * v.yres_virtual
                   > f.smem_len
                THEN -EINVAL ELSE -EINVAL
    IN  ltdcfb_set_bitfields(v)

Candidates ==
    { [xres |-> g[1], yres |-> g[2], xres_virtual |-> g[1],
       yres_virtual |-> g[2], bits_per_pixel |-> b, yoffset |-> y,
       msb_right |-> 1, rgba_length |-> 0] :
      g \in {<<480, 272>>, <<800, 480>>}, b \in {16, 32},
      y \in 0..MaxYOffset }

(* ------------------------------------------------------------------ *)
(* Steps                                                              *)
(* ------------------------------------------------------------------ *)

Logged(e) == log' = Append(log, e)

\* writel(v, fb->regs + r); writes made on the way to registration are
\* recorded in the log.
Writel(r, v) ==
    /\ hw' = [hw EXCEPT ![r] = v]
    /\ IF registered THEN UNCHANGED log ELSE Logged("w:" \o r)

\* A step of ltdcfb_register failing with error e reported by the step and
\* value r assigned to ret, continuing at label l.
Fail(e, r, l) ==
    /\ origin' = IF origin # 0 THEN origin ELSE e
    /\ ret' = r
    /\ pc' = l

(* ---------------- ltdcfb_probe, up to ltdcfb_register -------------- *)

ProbeDmaMask ==
    /\ pc = "probe"
    /\ \E e \in {0, EIO} :
          IF e = 0
          THEN pc' = "p_kzalloc" /\ UNCHANGED <<ret, origin>>
          ELSE Fail(-e, -e, "failed")
    /\ UNCHANGED <<stack, dt, panel, hw, res_vars, fix, var, log, chk, fault>>

ProbeKzalloc ==
    /\ pc = "p_kzalloc"
    /\ \E ok \in BOOLEAN :
          IF ok
          THEN /\ fbctx' = "alloc"
               /\ Logged("kzalloc")
               /\ pc' = "p_of_node"
               /\ UNCHANGED <<ret, origin>>
          ELSE /\ Fail(-ENOMEM, -ENOMEM, "failed")
               /\ UNCHANGED <<fbctx, log>>
    /\ UNCHANGED <<stack, dt, panel, hw, clk, regs, irq_ok, irqs, screen, cmap,
                   registered, drvdata, fix, var, chk, fault>>

\* if (!pdev->dev.of_node) return -ENODEV;  (fb is not freed)
ProbeOfNode ==
    /\ pc = "p_of_node"
    /\ \E present \in BOOLEAN :
          IF present
          THEN pc' = "p_of_init" /\ UNCHANGED <<ret, origin>>
          ELSE Fail(-ENODEV, -ENODEV, "failed")
    /\ UNCHANGED <<stack, dt, panel, hw, res_vars, fix, var, log, chk, fault>>

\* ret = ltdcfb_of_init(fb); if (ret) return -ENODEV;
ProbeOfInit ==
    /\ pc = "p_of_init"
    /\ \E e \in {0, ENOMEM, ENOENT} :
          IF e = 0
          THEN /\ \E b \in of_init_bpp(dt.bandwidth, dt.mode.pixclock) :
                     panel' = of_init_panel(dt.mode, b)
               /\ pc' = "r_clk_get"
               /\ UNCHANGED <<ret, origin>>
          ELSE /\ Fail(-e, -ENODEV, "failed")
               /\ UNCHANGED panel
    /\ UNCHANGED <<stack, dt, hw, res_vars, fix, var, log, chk, fault>>

(* ---------------- ltdcfb_register: acquisition --------------------- *)

RClkGet ==
    /\ pc = "r_clk_get"
    /\ \E e \in {0, ENOENT} :
          IF e = 0
          THEN /\ clk' = [clk EXCEPT !.ref = @ + 1]
               /\ Logged("clk_get")
               /\ pc' = "r_clk_enable"
               /\ UNCHANGED <<ret, origin>>
          ELSE /\ Fail(-e, -e, "r_out")
               /\ UNCHANGED <<clk, log>>
    /\ UNCHANGED <<stack, dt, panel, hw, fbctx, regs, irq_ok, irqs, screen,
                   cmap, registered, drvdata, fix, var, chk, fault>>

RClkEnable ==
    /\ pc = "r_clk_enable"
    /\ \E e \in {0, EINVAL} :
          IF e = 0
          THEN /\ clk' = [clk EXCEPT !.prepare = @ + 1, !.enable = @ + 1]
               /\ Logged("clk_prepare_enable")
               /\ pc' = "r_get_resource"
               /\ UNCHANGED <<ret, origin>>
          ELSE /\ Fail(-e, -e, "free_clk")
               /\ UNCHANGED <<clk, log>>
    /\ UNCHANGED <<stack, dt, panel, hw, fbctx, regs, irq_ok, irqs, screen,
                   cmap, registered, drvdata, fix, var, chk, fault>>

RGetResource ==
    /\ pc = "r_get_resource"
    /\ \E ok \in BOOLEAN :
          IF ok
          THEN pc' = "r_ioremap" /\ UNCHANGED <<ret, origin>>
          ELSE Fail(-ENXIO, -ENXIO, "clk_unprep")
    /\ UNCHANGED <<stack, dt, panel, hw, res_vars, fix, var, log, chk, fault>>

RIoremap ==
    /\ pc = "r_ioremap"
    /\ \E ok \in BOOLEAN :
          IF ok
          THEN /\ regs' = "mapped"
               /\ Logged("ioremap")
               /\ pc' = "r_irq_lookup"
               /\ UNCHANGED <<ret, origin>>
          ELSE /\ Fail(-ENOMEM, -ENOMEM, "clk_unprep")
               /\ UNCHANGED <<regs, log>>
    /\ UNCHANGED <<stack, dt, panel, hw, clk, fbctx, irq_ok, irqs, screen,
                   cmap, registered, drvdata, fix, var, chk, fault>>

\* fb->irq and fb->error_irq are u32: "fb->irq < 0 || fb->error_irq < 0" is
\* never true, so a failed lookup goes on to request_irq.
RIrqLookup ==
    /\ pc = "r_irq_lookup"
    /\ \E found \in SUBSET {"irq", "error_irq"} :
          /\ irq_ok' = found
          /\ origin' = IF found = {"irq", "error_irq"} THEN origin ELSE -ENXIO
    /\ pc' = "r_request_irq"
    /\ UNCHANGED <<stack, dt, panel, hw, clk, fbctx, regs, irqs, screen, cmap,
                   registered, drvdata, fix, var, ret, log, chk, fault>>

\* request_irq(line, ltdc_interrupt, IRQF_SHARED, name, fb) at position at,
\* going on to position next.
RequestIrq(line, at, next) ==
    /\ pc = at
    /\ \E e \in (IF line \in irq_ok THEN {0, EBUSY} ELSE {EINVAL}) :
          IF e = 0
          THEN /\ irqs' = irqs \cup {line}
               /\ Logged("request_irq:" \o line)
               /\ pc' = next
               /\ UNCHANGED <<ret, origin>>
          ELSE /\ Fail(-e, -ENXIO, "clk_unprep")
               /\ UNCHANGED <<irqs, log>>
    /\ UNCHANGED <<stack, dt, panel, hw, clk, fbctx, regs, irq_ok, screen,
                   cmap, registered, drvdata, fix, var, chk, fault>>

\* Going on to the error line without attaching the line interrupt.
RRequestIrqSkipped ==
    /\ pc = "r_request_irq"
    /\ pc' = "r_request_error_irq"
    /\ UNCHANGED <<stack, dt, panel, hw, res_vars, fix, var, ret, origin, log,
                   chk, fault>>

RRequestIrq == RequestIrq("irq", "r_request_irq", "r_request_error_irq")

RRequestErrorIrq == RequestIrq("error_irq", "r_request_error_irq", "r_dma_alloc")

\* Bus addresses dma_alloc_wc may hand out.
DmaAddrs == {2^20, 2^29}

\* fb->fb.var as lines 331-359 leave it.
register_var(p) ==
    ltdcfb_set_bitfields(
        [xres |-> p.mode.xres, yres |-> p.mode.yres,
         xres_virtual |-> p.mode.xres, yres_virtual |-> p.mode.yres,
         bits_per_pixel |-> p.bpp, yoffset |-> 0, msb_right |-> 0,
         rgba_length |-> 0]).var

\* Lines 298-359: the allocation, the test pattern, fix and var.
RDmaAlloc ==
    /\ pc = "r_dma_alloc"
    /\ \E ok \in BOOLEAN :
          IF ok
          THEN /\ screen' = "alloc"
               /\ \E dma \in DmaAddrs :
                     fix' = [fix EXCEPT !.smem_start = dma,
                                        !.smem_len = framesize]
               /\ panel' = [panel EXCEPT !.width = 272]
               /\ var' = register_var(panel)
               /\ Logged("dma_alloc")
               /\ pc' = "r_alloc_cmap"
               /\ UNCHANGED <<ret, origin>>
          ELSE /\ Fail(-ENOMEM, -ENOMEM, "clk_unprep")
               /\ UNCHANGED <<screen, fix, panel, var, log>>
    /\ UNCHANGED <<stack, dt, hw, clk, fbctx, regs, irq_ok, irqs, cmap,
                   registered, drvdata, chk, fault>>

RAllocCmap ==
    /\ pc = "r_alloc_cmap"
    /\ \E e \in {0, ENOMEM} :
          IF e = 0
          THEN /\ cmap' = "alloc"
               /\ Logged("fb_alloc_cmap")
               /\ pc' = "r_ier"
               /\ UNCHANGED <<ret, origin>>
          ELSE /\ Fail(-e, -e, "unmap")
               /\ UNCHANGED <<cmap, log>>
    /\ UNCHANGED <<stack, dt, panel, hw, clk, fbctx, regs, irq_ok, irqs,
                   screen, registered, drvdata, fix, var, chk, fault>>

(* ---------------- ltdcfb_register: programming --------------------- *)

\* One writel of ltdcfb_register at position at, going on to next.
RWrite(at, r, v, next) ==
    /\ pc = at
    /\ Writel(r, v)
    /\ pc' = next
    /\ UNCHANGED <<stack, dt, panel, res_vars, fix, var, ret, origin, chk, fault>>

RWriteIER == RWrite("r_ier", "IER", U32(15), "r_sscr")

RWriteSSCR == RWrite("r_sscr", "SSCR", sscr_val(panel.mode), "r_bpcr")

RWriteBPCR == RWrite("r_bpcr", "BPCR", bpcr_val(panel.mode), "r_awcr")

RWriteAWCR == RWrite("r_awcr", "AWCR", awcr_val(panel.mode), "r_twcr")

\* Going on to the global enable without writing the total width.
RWriteTWCRSkipped ==
    /\ pc = "r_twcr"
    /\ pc' = "r_gcr"
    /\ UNCHANGED <<stack, dt, panel, hw, res_vars, fix, var, ret, origin, log,
                   chk, fault>>

RWriteTWCR == RWrite("r_twcr", "TWCR", twcr_val(panel.mode), "r_gcr")

RWriteGCR == RWrite("r_gcr", "GCR", U32(1), "r_enable")

REnable == RWrite("r_enable", "L1CR", ltdcfb_enable_val(hw["L1CR"]), "r_set_var")

\* fb_set_var(&fb->fb, &fb->fb.var): the framebuffer core either finds the
\* mode unchanged and does nothing, or runs fb_check_var and fb_set_par.
RSetVar ==
    /\ pc = "r_set_var"
    /\ \/ /\ pc' = "r_set_start"
          /\ UNCHANGED <<stack, var>>
       \/ LET c == ltdcfb_check_var(var, fix)
          IN  IF c.ret = 0
              THEN /\ var' = c.var
                   /\ pc' = "set_par"
                   /\ stack' = <<"r_set_start">> \o stack
              ELSE /\ pc' = "r_set_start"
                   /\ UNCHANGED <<stack, var>>
    /\ UNCHANGED <<dt, panel, hw, res_vars, fix, ret, origin, log, chk, fault>>

\* ltdcfb_set_start(fb) at line 388.
RSetStart ==
    /\ pc = "r_set_start"
    /\ pc' = "ss_addr"
    /\ stack' = <<"r_register_fb">> \o stack
    /\ UNCHANGED <<dt, panel, hw, res_vars, fix, var, ret, origin, log, chk, fault>>

RRegisterFb ==
    /\ pc = "r_register_fb"
    /\ \E e \in {0, EINVAL} :
          IF e = 0
          THEN /\ registered' = TRUE
               /\ Logged("register_framebuffer")
               /\ ret' = 0
               /\ pc' = "r_out"
               /\ UNCHANGED origin
          ELSE /\ Fail(-e, -e, "r_dealloc_cmap")
               /\ UNCHANGED <<registered, log>>
    /\ UNCHANGED <<stack, dt, panel, hw, clk, fbctx, regs, irq_ok, irqs,
                   screen, cmap, drvdata, fix, var, chk, fault>>

(* ---------------- ltdcfb_set_par / ltdcfb_set_start ---------------- *)

SetPar ==
    /\ pc = "set_par"
    /\ fix' = [fix EXCEPT !.line_length = set_par_line_length(var)]
    /\ pc' = "ss_addr"
    /\ UNCHANGED <<stack, dt, panel, hw, res_vars, var, ret, origin, log, chk, fault>>

SetStartAddr ==
    /\ pc = "ss_addr"
    /\ Writel("L1CFBAR", set_start_addr(fix, var))
    /\ pc' = "ss_len"
    /\ UNCHANGED <<stack, dt, panel, res_vars, fix, var, ret, origin, chk, fault>>

SetStartLen ==
    /\ pc = "ss_len"
    /\ Writel("L1CFBLR", set_start_len(fix))
    /\ pc' = "ss_fmt"
    /\ UNCHANGED <<stack, dt, panel, res_vars, fix, var, ret, origin, chk, fault>>

SetStartFmt ==
    /\ pc = "ss_fmt"
    /\ Writel("L1PFCR", U32(LTDC_ARGB))
    /\ pc' = Head(stack)
    /\ stack' = Tail(stack)
    /\ UNCHANGED <<dt, panel, res_vars, fix, var, ret, origin, chk, fault>>

(* ---------------- ltdcfb_register: the error path ------------------- *)

RDeallocCmap ==
    /\ pc = "r_dealloc_cmap"
    /\ cmap' = "freed"
    /\ Logged("fb_dealloc_cmap")
    /\ pc' = "r_dma_free"
    /\ UNCHANGED <<stack, dt, panel, hw, clk, fbctx, regs, irq_ok, irqs,
                   screen, registered, drvdata, fix, var, ret, origin, chk, fault>>

RDmaFree ==
    /\ pc = "r_dma_free"
    /\ screen' = "freed"
    /\ Logged("dma_free")
    /\ pc' = "unmap"
    /\ UNCHANGED <<stack, dt, panel, hw, clk, fbctx, regs, irq_ok, irqs,
                   cmap, registered, drvdata, fix, var, ret, origin, chk, fault>>

RUnmap ==
    /\ pc = "unmap"
    /\ regs' = "unmapped"
    /\ Logged("iounmap")
    /\ pc' = "clk_unprep"
    /\ UNCHANGED <<stack, dt, panel, hw, clk, fbctx, irq_ok, irqs, screen,
                   cmap, registered, drvdata, fix, var, ret, origin, chk, fault>>

RClkUnprep ==
    /\ pc = "clk_unprep"
    /\ clk' = [clk EXCEPT !.prepare = @ - 1]
    /\ Logged("clk_unprepare")
    /\ pc' = "free_clk"
    /\ UNCHANGED <<stack, dt, panel, hw, fbctx, regs, irq_ok, irqs, screen,
                   cmap, registered, drvdata, fix, var, ret, origin, chk, fault>>

RFreeClk ==
    /\ pc = "free_clk"
    /\ clk' = [clk EXCEPT !.ref = @ - 1]
    /\ Logged("clk_put")
    /\ pc' = "r_out"
    /\ UNCHANGED <<stack, dt, panel, hw, fbctx, regs, irq_ok, irqs, screen,
                   cmap, registered, drvdata, fix, var, ret, origin, chk, fault>>

\* Back in ltdcfb_probe, lines 544-555.
ProbeOut ==
    /\ pc = "r_out"
    /\ IF ret = 0
       THEN /\ drvdata' = TRUE
            /\ pc' = "registered"
            /\ UNCHANGED <<fbctx, log>>
       ELSE /\ fbctx' = "freed"
            /\ Logged("kfree")
            /\ pc' = "failed"
            /\ UNCHANGED drvdata
    /\ UNCHANGED <<stack, dt, panel, hw, clk, regs, irq_ok, irqs, screen, cmap,
                   registered, fix, var, ret, origin, chk, fault>>

(* ---------------- ltdc_interrupt ----------------------------------- *)

\* The handler runs whenever a line it is attached to fires (the lines are
\* shared).  It dereferences fb and writes through fb->regs.
ltdc_interrupt(line) ==
    /\ line \in irqs
    /\ IF fbctx = "alloc" /\ regs = "mapped"
       THEN /\ hw' = [hw EXCEPT !["ICR"] = icr_ack]
            /\ UNCHANGED fault
       ELSE /\ fault' = TRUE
            /\ UNCHANGED hw
    /\ UNCHANGED <<pc, stack, dt, panel, res_vars, fix, var, ret, origin, log, chk>>

Interrupt == \E line \in {"irq", "error_irq"} : ltdc_interrupt(line)

(* ---------------- the framebuffer core calling fb_ops --------------- *)

CheckVar ==
    /\ pc = "registered"
    /\ \E cand \in Candidates :
          LET c == ltdcfb_check_var(cand, fix)
          IN  chk' = [called |-> TRUE, cand |-> cand, out |-> c.var, ret |-> c.ret]
    /\ UNCHANGED <<pc, stack, dt, panel, hw, res_vars, fix, var, ret, origin, log, fault>>

\* fb_set_var from a consumer: fb_check_var, then info->var = *var and
\* fb_set_par.
FbSetVar ==
    /\ pc = "registered"
    /\ \E cand \in Candidates :
          LET c == ltdcfb_check_var(cand, fix)
          IN  IF c.ret = 0
              THEN /\ var' = c.var
                   /\ pc' = "set_par"
                   /\ stack' = <<"registered">> \o stack
              ELSE UNCHANGED <<var, pc, stack>>
    /\ chk' = NoChk
    /\ UNCHANGED <<dt, panel, hw, res_vars, fix, ret, origin, log, fault>>

(* ---------------- ltdcfb_remove ------------------------------------ *)

XDisable ==
    /\ pc = "registered"
    /\ hw' = [hw EXCEPT !["L1CR"] = ltdcfb_disable_val(hw["L1CR"])]
    /\ Logged("disable")
    /\ pc' = "x_unregister"
    /\ chk' = NoChk
    /\ UNCHANGED <<stack, dt, panel, res_vars, fix, var, ret, origin, fault>>

XUnregister ==
    /\ pc = "x_unregister"
    /\ registered' = FALSE
    /\ Logged("unregister_framebuffer")
    /\ pc' = "x_dealloc_cmap"
    /\ UNCHANGED <<stack, dt, panel, hw, clk, fbctx, regs, irq_ok, irqs,
                   screen, cmap, drvdata, fix, var, ret, origin, chk, fault>>

XDeallocCmap ==
    /\ pc = "x_dealloc_cmap"
    /\ IF cmap = "alloc"
       THEN cmap' = "freed" /\ Logged("fb_dealloc_cmap")
       ELSE UNCHANGED <<cmap, log>>
    /\ pc' = "x_dma_free"
    /\ UNCHANGED <<stack, dt, panel, hw, clk, fbctx, regs, irq_ok, irqs,
                   screen, registered, drvdata, fix, var, ret, origin, chk, fault>>

XDmaFree ==
    /\ pc = "x_dma_free"
    /\ IF screen = "alloc"
       THEN screen' = "freed" /\ Logged("dma_free")
       ELSE UNCHANGED <<screen, log>>
    /\ pc' = "x_iounmap"
    /\ UNCHANGED <<stack, dt, panel, hw, clk, fbctx, regs, irq_ok, irqs,
                   cmap, registered, drvdata, fix, var, ret, origin, chk, fault>>

XIounmap ==
    /\ pc = "x_iounmap"
    /\ regs' = "unmapped"
    /\ Logged("iounmap")
    /\ pc' = "x_clk_unprepare"
    /\ UNCHANGED <<stack, dt, panel, hw, clk, fbctx, irq_ok, irqs, screen,
                   cmap, registered, drvdata, fix, var, ret, origin, chk, fault>>

XClkUnprepare ==
    /\ pc = "x_clk_unprepare"
    /\ clk' = [clk EXCEPT !.prepare = @ - 1]
    /\ Logged("clk_unprepare")
    /\ pc' = "x_clk_put"
    /\ UNCHANGED <<stack, dt, panel, hw, fbctx, regs, irq_ok, irqs, screen,
                   cmap, registered, drvdata, fix, var, ret, origin, chk, fault>>

XClkPut ==
    /\ pc = "x_clk_put"
    /\ clk' = [clk EXCEPT !.ref = @ - 1]
    /\ Logged("clk_put")
    /\ pc' = "x_kfree"
    /\ UNCHANGED <<stack, dt, panel, hw, fbctx, regs, irq_ok, irqs, screen,
                   cmap, registered, drvdata, fix, var, ret, origin, chk, fault>>

XKfree ==
    /\ pc = "x_kfree"
    /\ fbctx' = "freed"
    /\ Logged("kfree")
    /\ pc' = "removed"
    /\ UNCHANGED <<stack, dt, panel, hw, clk, regs, irq_ok, irqs, screen, cmap,
                   registered, drvdata, fix, var, ret, origin, chk, fault>>

(* ------------------------------------------------------------------ *)
(* Specifications                                                     *)
(* ------------------------------------------------------------------ *)

Resolve == ProbeDmaMask \/ ProbeKzalloc \/ ProbeOfNode \/ ProbeOfInit

Register ==
    \/ RClkGet \/ RClkEnable \/ RGetResource \/ RIoremap \/ RIrqLookup
    \/ RRequestIrq \/ RRequestErrorIrq \/ RDmaAlloc \/ RAllocCmap
    \/ RWriteIER \/ RWriteSSCR \/ RWriteBPCR \/ RWriteAWCR \/ RWriteTWCR
    \/ RWriteGCR \/ REnable \/ RSetVar \/ RSetStart \/ RRegisterFb
    \/ RDeallocCmap \/ RDmaFree \/ RUnmap \/ RClkUnprep \/ RFreeClk
    \/ ProbeOut

Ops == CheckVar \/ FbSetVar \/ SetPar \/ SetStartAddr \/ SetStartLen \/ SetStartFmt

Remove ==
    \/ XDisable \/ XUnregister \/ XDeallocCmap \/ XDmaFree \/ XIounmap
    \/ XClkUnprepare \/ XClkPut \/ XKfree

Next == Resolve \/ Register \/ Ops \/ Remove \/ Interrupt

Spec == Init /\ [][Next]_vars

\* The mode resolver alone, over the whole range of bandwidths.
InitOfInit == InitWith(Modes, Bandwidths, {U32(0)})

SpecOfInit == InitOfInit /\ [][Resolve]_vars

\* Registration alone, over the generated panel timings.
InitTiming == InitWith(TimingModes, {NoBandwidth}, {U32(0)})

NextTiming ==
    \/ Resolve \/ Register
    \/ SetPar \/ SetStartAddr \/ SetStartLen \/ SetStartFmt
    \/ Interrupt

SpecTiming == InitTiming /\ [][NextTiming]_vars

(* ------------------------------------------------------------------ *)
(* Observations used by the properties                                *)
(* ------------------------------------------------------------------ *)

InLog(e) == \E i \in DOMAIN log : log[i] = e

\* Position of the first e in the log (0: none), and how many there are.
Pos(e) == IF InLog(e) THEN CHOOSE i \in DOMAIN log :
                              log[i] = e /\ \A j \in 1..(i - 1) : log[j] # e
          ELSE 0

Count(e) == Cardinality({i \in DOMAIN log : log[i] = e})

Before(a, b) == Pos(a) > 0 /\ Pos(b) > 0 /\ Pos(a) < Pos(b)

\* ltdcfb_register was entered and ltdcfb_probe has returned its error.
RegisterFailed == pc = "failed" /\ panel # NoPanel

ClockHeld == clk.ref > 0

\* Interrupts, then buffer, then register map, then clock.
ReleaseRank(e) ==
    CASE e = "free_irq" -> 1
      [] e = "dma_free" -> 2
      [] e = "iounmap" -> 3
      [] e \in {"clk_unprepare", "clk_put"} -> 4
      [] OTHER -> 0

ReleasesInReverseOrder ==
    \A i, j \in DOMAIN log :
        (i < j /\ ReleaseRank(log[i]) > 0 /\ ReleaseRank(log[j]) > 0)
            => ReleaseRank(log[i]) <= ReleaseRank(log[j])

NothingReleasedUnacquired ==
    /\ InLog("dma_free") => InLog("dma_alloc")
    /\ InLog("iounmap") => InLog("ioremap")
    /\ InLog("clk_unprepare") => InLog("clk_prepare_enable")
    /\ InLog("clk_put") => InLog("clk_get")

LayerEnabled == hw["L1CR"].lo % 2 = 1

(* ------------------------------------------------------------------ *)
(* Properties                                                         *)
(* ------------------------------------------------------------------ *)

\* C1: when a step of ltdcfb_register fails, every resource acquired before
\* it (interrupt lines, DMA buffer, register mapping, clock) has been
\* released by the time the error is returned, in the order interrupts,
\* buffer, register map, clock; nothing never acquired is released and the
\* instance holds nothing.
C1_FailedRegisterReleasesAll ==
    RegisterFailed =>
        /\ irqs = {}
        /\ screen # "alloc"
        /\ regs # "mapped"
        /\ ~ClockHeld
        /\ ReleasesInReverseOrder
        /\ NothingReleasedUnacquired

\* C2: ltdcfb_remove disables the layer, detaches both interrupt handlers,
\* frees the DMA buffer, unmaps the registers and releases the clock, in
\* that order, releasing everything the registration acquired.
C2_RemoveReleasesAllInOrder ==
    pc = "removed" =>
        /\ ~LayerEnabled
        /\ irqs = {}
        /\ screen = "freed"
        /\ regs = "unmapped"
        /\ ~ClockHeld
        /\ ReleasesInReverseOrder

\* C3: whenever the DMA frame buffer is freed, the layer-enable bit is
\* already clear and no interrupt handler is attached any more.
C3_FreeOnlyWhenQuiesced ==
    [][(screen = "alloc" /\ screen' = "freed") => (~LayerEnabled /\ irqs = {})]_vars

\* C4: while a handler is attached to the line or error interrupt, the
\* registers are mapped and neither the driver context nor the frame buffer
\* has been freed, so ltdc_interrupt never runs on a destroyed instance.
C4_NoHandlerOnDestroyedInstance ==
    /\ irqs # {} => (regs = "mapped" /\ fbctx = "alloc" /\ screen # "freed")
    /\ ~fault

\* C5: the error returned by a failed ltdcfb_register / ltdcfb_probe is the
\* error reported by the step that failed, and is never success.
C5_OriginatingErrorReturned ==
    pc = "failed" => (ret = origin /\ ret # 0)

\* A register value as an integer (upper half below 2^15).
RegInt(r) == r.hi * 2^16 + r.lo

\* v | h << 16 for a vertical count v and a horizontal count h.
Packed(v, h) == BitOr(v, h * 2^16)

WorkedMode == Mode(480, 272, 111111, 13, 32, 2, 2, 41, 10)

\* C6: the active-width and total-width registers programmed at
\* registration accumulate the active width and height of the resolved
\* mode, whatever they are.
C6_ActiveAndTotalFollowMode ==
    InLog("w:TWCR") =>
        LET m == panel.mode
        IN  /\ hw["AWCR"] =
                 RegOr(U32(m.vsync_len + m.upper_margin + m.yres - 1),
                       Shl16(m.hsync_len + m.left_margin + m.xres - 1))
            /\ hw["TWCR"] =
                 RegOr(U32(m.vsync_len + m.upper_margin + m.yres
                           + m.lower_margin - 1),
                       Shl16(m.hsync_len + m.left_margin + m.xres
                             + m.right_margin - 1))

\* C7: for vsync_len > 0 and hsync_len > 0 the sync-size register is
\* (vsync_len - 1) | (hsync_len - 1) << 16 and the back-porch register is
\* (vsync_len + upper_margin - 1) | (hsync_len + left_margin - 1) << 16;
\* for hsync 41, vsync 10, left 13, upper 2 they are 0x00280009 and
\* 0x0035000B.
C7_SyncSizeAndBackPorch ==
    InLog("w:BPCR") =>
        LET m == panel.mode
        IN  /\ (m.vsync_len > 0 /\ m.hsync_len > 0) =>
                  /\ RegInt(hw["SSCR"]) =
                        Packed(m.vsync_len - 1, m.hsync_len - 1)
                  /\ RegInt(hw["BPCR"]) =
                        Packed(m.vsync_len + m.upper_margin - 1,
                               m.hsync_len + m.left_margin - 1)
            /\ m = WorkedMode =>
                  /\ RegInt(hw["SSCR"]) = 2621449
                  /\ RegInt(hw["BPCR"]) = 3473419

C7_Witness ==
    /\ InLog("w:BPCR")
    /\ panel.mode = WorkedMode
    /\ hw["BPCR"] = [hi |-> 53, lo |-> 11]

\* floor(8 * B / (C * 1000)); past 2^28 the factor 8 is cancelled first.
BppBudget(B, C) ==
    IF B < 2^28 THEN (8 * B) \div (C * 1000) ELSE B \div (125 * C)

LargestPow2(q) == CHOOSE p \in {2^k : k \in 0..20} : p <= q /\ q < 2 * p

ResolvedOK == panel # NoPanel

\* C8: the resolved depth is 32 without a bandwidth property; with
\* bandwidth B and pixel clock C kHz (C >= 1, budget at least 1) it is
\* min(32, largest power of two not above floor(8 * B / (C * 1000))).
C8_BppFromBandwidth ==
    ResolvedOK =>
        LET B == dt.bandwidth
            C == PICOS2KHZ(dt.mode.pixclock)
        IN  IF B = NoBandwidth
            THEN panel.bpp = 32
            ELSE (C >= 1 /\ BppBudget(B, C) >= 1) =>
                    panel.bpp =
                        (IF LargestPow2(BppBudget(B, C)) > 32 THEN 32
                         ELSE LargestPow2(BppBudget(B, C)))

C8_Witness ==
    /\ ResolvedOK
    /\ dt.bandwidth # NoBandwidth
    /\ BppBudget(dt.bandwidth, PICOS2KHZ(dt.mode.pixclock)) = 17
    /\ panel.bpp = 16

\* C9: resolution fails when the budget is below 1 or a timing value is
\* not positive, so a resolution that succeeded has a bpp that is a power
\* of two from 1 to 32.
C9_ResolveRejectsSmallBudget ==
    ResolvedOK =>
        /\ dt.bandwidth # NoBandwidth =>
              BppBudget(dt.bandwidth, PICOS2KHZ(dt.mode.pixclock)) >= 1
        /\ dt.mode.hsync_len > 0 /\ dt.mode.vsync_len > 0
        /\ dt.mode.xres > 0 /\ dt.mode.yres > 0 /\ dt.mode.pixclock > 0
        /\ panel.bpp \in {1, 2, 4, 8, 16, 32}

Oversized(v) ==
    v.xres_virtual * (v.bits_per_pixel \div 8) * v.yres_virtual > fix.smem_len

\* C10: ltdcfb_check_var returns an error for a candidate that needs more
\* than the allocated buffer or whose depth is not 32, and a rejected
\* candidate changes no register and no base, length or stride.
C10_CheckVarRejects ==
    [][(chk'.called /\ chk' # chk) =>
          /\ (Oversized(chk'.cand) \/ chk'.cand.bits_per_pixel # 32)
                => chk'.ret # 0
          /\ chk'.ret # 0 => (hw' = hw /\ fix' = fix)]_vars

\* C11: once registered, the stride is width * (bpp / 8) and the allocated
\* buffer holds at least stride * height bytes, for every resolution the
\* driver accepts.
C11_StrideAndBufferLength ==
    pc = "registered" =>
        /\ fix.line_length = var.xres * (var.bits_per_pixel \div 8)
        /\ fix.smem_len >= var.xres * (var.bits_per_pixel \div 8) * var.yres

\* C12: when ltdcfb_set_start has written the address and the length, the
\* address register holds base + yoffset * stride and the length register
\* the aligned stride in its low half and the stride in its high half.
C12_StartAddressAndLength ==
    pc = "ss_fmt" =>
        /\ hw["L1CFBAR"] = U32(fix.smem_start + var.yoffset * fix.line_length)
        /\ hw["L1CFBLR"] = [hi |-> fix.line_length % 2^16,
                            lo |-> (fix.line_length + 3) % 2^16]

\* Register contents a and b agree on every bit but bit 0, which is bit in b.
OnlyBitZero(a, b, bit) ==
    /\ b.hi = a.hi
    /\ b.lo \div 2 = a.lo \div 2
    /\ b.lo % 2 = bit

\* The step of ltdcfb_register that calls ltdcfb_enable, and the step of
\* ltdcfb_remove that calls ltdcfb_disable.
EnableStep == pc = "r_enable" /\ pc' = "r_set_var"

DisableStep == pc = "registered" /\ pc' = "x_unregister"

OtherRegsKept == \A r \in RegNames \ {"L1CR"} : hw'[r] = hw[r]

\* C13: ltdcfb_enable and ltdcfb_disable change only bit 0 of the layer
\* control register, whatever it held, and applying either a second time
\* changes nothing.
C13_EnableDisableTouchBitZeroOnly ==
    [][ /\ EnableStep =>
              /\ OnlyBitZero(hw["L1CR"], hw'["L1CR"], 1)
              /\ ltdcfb_enable_val(hw'["L1CR"]) = hw'["L1CR"]
              /\ OtherRegsKept
        /\ DisableStep =>
              /\ OnlyBitZero(hw["L1CR"], hw'["L1CR"], 0)
              /\ ltdcfb_disable_val(hw'["L1CR"]) = hw'["L1CR"]
              /\ OtherRegsKept ]_vars

C13_Witness ==
    /\ InLog("disable")
    /\ dt.l1cr = [hi |-> 65535, lo |-> 65534]
    /\ hw["L1CR"] = dt.l1cr

\* C14 as stated: after ltdcfb_enable then ltdcfb_disable the layer control
\* register is back at its prior content, enable bit included.
C14_RoundTripRestores == InLog("disable") => hw["L1CR"] = dt.l1cr

\* C14: after ltdcfb_enable then ltdcfb_disable the layer-enable bit is
\* clear, whatever it was before the pair, and every other bit of the layer
\* control register is as it was before.
C14_RoundTripClearsBit ==
    InLog("disable") => OnlyBitZero(dt.l1cr, hw["L1CR"], 0)

C14_Witness ==
    /\ InLog("disable")
    /\ dt.l1cr.lo % 2 = 1
    /\ hw["L1CR"] # dt.l1cr

\* The four interrupt causes of the controller, the ones line 366 enables.
AllCauses == U32(15)

\* C15: every invocation of the interrupt handler, on either line, writes
\* the value with every cause bit set to the interrupt-clear register (and
\* so performs a write through a live register mapping) before returning.
C15_HandlerAcknowledgesAll ==
    [][Interrupt => hw'["ICR"] = AllCauses /\ ~fault']_vars

\* The events of es are each in the log exactly once, in the order of es.
RECURSIVE InOrder(_)
InOrder(es) ==
    IF Len(es) = 0 THEN TRUE
    ELSE /\ Count(Head(es)) = 1
         /\ Len(es) > 1 => Before(es[1], es[2])
         /\ InOrder(Tail(es))

ProgrammingOrder ==
    <<"w:SSCR", "w:BPCR", "w:AWCR", "w:TWCR", "w:GCR", "w:L1CR">>

TimingWritten ==
    \A e \in {"w:SSCR", "w:BPCR", "w:AWCR", "w:TWCR"} : Count(e) = 1

\* C17: the timing registers are written once each in the order sync size,
\* back porch, active width, total width, all of them before the global
\* enable and the layer enable are written, and the driver never has an
\* enable bit set while one of them is unwritten.
C17_TimingBeforeEnable ==
    /\ \A j \in DOMAIN ProgrammingOrder :
          InLog(ProgrammingOrder[j]) => InOrder(SubSeq(ProgrammingOrder, 1, j))
    /\ \A e \in {"w:SSCR", "w:BPCR", "w:AWCR", "w:TWCR"} : Count(e) <= 1
    /\ hw["GCR"].lo % 2 = 1 => TimingWritten
    /\ (LayerEnabled /\ dt.l1cr.lo % 2 = 0) => TimingWritten
    /\ pc = "registered" => InOrder(ProgrammingOrder)

C17_Witness ==
    /\ pc = "registered"
    /\ LayerEnabled
    /\ hw["GCR"] = U32(1)
    /\ Before("w:TWCR", "w:GCR")

\* The vertical and the horizontal counts of the four timing registers, in
\* the order sync size, back porch, active width, total width.
VerticalCounts(m) ==
    <<m.vsync_len - 1,
      m.vsync_len + m.upper_margin - 1,
      m.vsync_len + m.upper_margin + m.yres - 1,
      m.vsync_len + m.upper_margin + m.yres + m.lower_margin - 1>>

HorizontalCounts(m) ==
    <<m.hsync_len - 1,
      m.hsync_len + m.left_margin - 1,
      m.hsync_len + m.left_margin + m.xres - 1,
      m.hsync_len + m.left_margin + m.xres + m.right_margin - 1>>

TimingRegs == <<"SSCR", "BPCR", "AWCR", "TWCR">>

\* C18: whenever registration has succeeded, every count of the timing
\* registers is non-negative and below 2^16, and in both halves of the
\* programmed registers total width > active width > back porch > sync size.
C18_TimingFieldsOrdered ==
    pc = "registered" =>
        /\ \A i \in 1..4 :
              /\ VerticalCounts(panel.mode)[i] \in 0..(2^16 - 1)
              /\ HorizontalCounts(panel.mode)[i] \in 0..(2^16 - 1)
        /\ \A i \in 1..3 :
              /\ hw[TimingRegs[i + 1]].lo > hw[TimingRegs[i]].lo
              /\ hw[TimingRegs[i + 1]].hi > hw[TimingRegs[i]].hi

\* The address and length registers as one update of ltdcfb_set_start
\* leaves them, for the strides and modes the driver can be given.
SetStartPairs ==
    { <<set_start_addr(f, v), set_start_len(f)>> :
        f \in { [fix EXCEPT !.line_length = ll] :
                  ll \in {0} \cup { set_par_line_length(c) : c \in Candidates } },
        v \in Candidates }

\* In the log, e is always followed directly by next, once anything follows.
FollowedBy(e, next) ==
    \A i \in DOMAIN log :
        (log[i] = e /\ i < Len(log)) => log[i + 1] = next

\* C19: ltdcfb_set_start writes address, then length, then pixel format,
\* and once both registers have been programmed, what a reader of the
\* address and length registers sees at any moment is what one single
\* update wrote, never the address of one update with the length of another.
C19_NoTornAddressLength ==
    /\ FollowedBy("w:L1CFBAR", "w:L1CFBLR")
    /\ FollowedBy("w:L1CFBLR", "w:L1PFCR")
    /\ InLog("w:L1CFBLR") =>
          <<hw["L1CFBAR"], hw["L1CFBLR"]>> \in SetStartPairs

\* C20: an invocation of the interrupt handler, wherever it falls among the
\* steps of registration, the fb_ops and teardown, changes nothing but the
\* interrupt-clear register: it touches no freed or unmapped object, no
\* other register, no frame-buffer metadata and no resource.
C20_HandlerChangesIcrOnly ==
    [][Interrupt =>
          /\ ~fault'
          /\ \A r \in RegNames \ {"ICR"} : hw'[r] = hw[r]
          /\ UNCHANGED <<fix, var, panel, res_vars, log, pc, stack, ret>>]_vars

\* C21: once ltdcfb_remove has finished, or probe has failed, the enable
\* count and the prepare count of the clock are back at their values from
\* before registration and the reference registration took was put once.
C21_ClockBalanced ==
    pc \in {"failed", "removed"} =>
        /\ clk.enable = 0
        /\ clk.prepare = 0
        /\ clk.ref = 0
        /\ Count("clk_put") = Count("clk_get")
        /\ Count("clk_unprepare") = Count("clk_prepare_enable")

====
